---- MODULE Spec2Model ----
(***************************************************************************)
(* Model of the MarketPulse workshop repository.                           *)
(*                                                                         *)
(* src/lambda/scorer.py: the risk profile scorer, a Lambda handler that    *)
(* validates a {ticker, risk_profile} event, classifies the ticker's       *)
(* volatility from VOLATILITY_MAP and looks the verdict up in              *)
(* SUITABILITY_MATRIX.                                                     *)
(*                                                                         *)
(* src/mcp-server/server.py: the market calendar tool,                     *)
(* check_market_holidays, which fetches the public holidays of one or two  *)
(* years from Nager.Date and reports those in the requested window.        *)
(*                                                                         *)
(* src/agent/app.py: the start-up of the agent, which assembles the tool   *)
(* list and the system prompt from three flags of the environment.         *)
(*                                                                         *)
(* src/scripts/test-auth.py: the OAuth test runner, which invokes the      *)
(* agent once per test case and counts the cases passed and failed.        *)
(*                                                                         *)
(* Representation.  A Python str is a sequence of one-character strings    *)
(* where the code inspects characters (the event's values and everything   *)
(* compared with them), and a sequence of longer pieces where it only      *)
(* passes the text on (labels, reasoning, message literals); concatenation *)
(* is \o.  A Python dict is the sequence of its <<key, value>> items in    *)
(* insertion order.  The body of a response is the JSON object that        *)
(* json.dumps(result) denotes: its members in order.                       *)
(***************************************************************************)
EXTENDS Integers, Sequences, FiniteSets, TLC

VARIABLES
    VOLATILITY_MAP,      \* scorer.py module global (a mutable dict)
    SUITABILITY_MATRIX,  \* scorer.py module global (a mutable dict)
    event,               \* the event the Lambda runtime hands to handler
    pc,                  \* "invoked": handler entered; "returned": it has returned
    response,            \* the dict handler returned (NoResponse while it runs)
    log,                 \* records the current invocation wrote to the logger
    earlier,             \* an earlier completed call: its event and its response
    calls,               \* server.py: the frames of the check_market_holidays calls
    clock,               \* the wall clock datetime.now() reads
    ticks,               \* how often the clock has advanced
    environ,             \* app.py: os.environ of the agent's process
    tools,               \* app.py module global: the registered tool functions
    system_prompt,       \* app.py module global: the lines of the system prompt
    agent_pc,            \* "loading": app.py is being imported; "loaded": it has run
    main                 \* test-auth.py: the frame of main()

scorer_vars == <<VOLATILITY_MAP, SUITABILITY_MATRIX, event, pc, response, log, earlier>>

calendar_vars == <<calls, clock, ticks>>

agent_vars == <<environ, tools, system_prompt, agent_pc>>

runner_vars == <<main>>

vars == <<VOLATILITY_MAP, SUITABILITY_MATRIX, event, pc, response, log, earlier,
          calls, clock, ticks, environ, tools, system_prompt, agent_pc, main>>

(***************************************************************************)
(* Bounds                                                                  *)
(***************************************************************************)
\* Largest number of whitespace characters put on one side of an input value.
MaxPad == 1

(***************************************************************************)
(* Characters and the str methods handler uses                             *)
(***************************************************************************)
ascii_lowercase ==
    <<"a", "b", "c", "d", "e", "f", "g", "h", "i", "j", "k", "l", "m",
      "n", "o", "p", "q", "r", "s", "t", "u", "v", "w", "x", "y", "z">>

ascii_uppercase ==
    <<"A", "B", "C", "D", "E", "F", "G", "H", "I", "J", "K", "L", "M",
      "N", "O", "P", "Q", "R", "S", "T", "U", "V", "W", "X", "Y", "Z">>

\* The characters of the model in ascending code point order.
CodePoints ==
    <<"\t", "\n", "\r", " ", "'", ",", ".">> \o ascii_uppercase \o <<"_">> \o ascii_lowercase

\* ord(c), up to an order-preserving renumbering.
ord(c) == CHOOSE i \in 1..Len(CodePoints) : CodePoints[i] = c

IsIn(c, alphabet) == \E i \in 1..Len(alphabet) : alphabet[i] = c

IndexIn(c, alphabet) == CHOOSE i \in 1..Len(alphabet) : alphabet[i] = c

\* str.isspace for one character.
isspace(c) == c \in {" ", "\t", "\n", "\r"}

\* str.upper: lower-case letters are replaced, everything else is kept.
upper(s) ==
    [i \in 1..Len(s) |->
        IF IsIn(s[i], ascii_lowercase)
        THEN ascii_uppercase[IndexIn(s[i], ascii_lowercase)]
        ELSE s[i]]

\* str.lower: upper-case letters are replaced, everything else is kept.
lower(s) ==
    [i \in 1..Len(s) |->
        IF IsIn(s[i], ascii_uppercase)
        THEN ascii_lowercase[IndexIn(s[i], ascii_uppercase)]
        ELSE s[i]]

RECURSIVE lstrip(_)
lstrip(s) ==
    IF s = <<>> THEN s
    ELSE IF isspace(Head(s)) THEN lstrip(Tail(s)) ELSE s

RECURSIVE rstrip(_)
rstrip(s) ==
    IF s = <<>> THEN s
    ELSE IF isspace(s[Len(s)]) THEN rstrip(SubSeq(s, 1, Len(s) - 1)) ELSE s

\* str.strip(): whitespace is removed at both ends and nowhere else.
strip(s) == rstrip(lstrip(s))

\* Lexicographic order of str by code point (the order sorted() uses).
RECURSIVE str_lt(_, _)
str_lt(a, b) ==
    IF b = <<>> THEN FALSE
    ELSE IF a = <<>> THEN TRUE
    ELSE IF Head(a) = Head(b) THEN str_lt(Tail(a), Tail(b))
    ELSE ord(Head(a)) < ord(Head(b))

\* Faulty variant of sorted: descending order.
RECURSIVE sorted_reverse(_)
sorted_reverse(S) ==
    IF S = {} THEN <<>>
    ELSE LET greatest == CHOOSE x \in S : \A y \in S \ {x} : str_lt(y, x)
         IN  <<greatest>> \o sorted_reverse(S \ {greatest})

\* sorted(S) for a set of str.
RECURSIVE sorted(_)
sorted(S) ==
    IF S = {} THEN <<>>
    ELSE LET least == CHOOSE x \in S : \A y \in S \ {x} : str_lt(x, y)
         IN  <<least>> \o sorted(S \ {least})

\* sep.join(parts)
RECURSIVE join(_, _)
join(sep, parts) ==
    IF parts = <<>> THEN <<>>
    ELSE IF Len(parts) = 1 THEN parts[1]
    ELSE parts[1] \o sep \o join(sep, Tail(parts))

(***************************************************************************)
(* dict                                                                    *)
(***************************************************************************)
dict_has(d, k) == \E i \in 1..Len(d) : d[i][1] = k

\* d.get(k, default)
dict_get(d, k, default) ==
    IF dict_has(d, k)
    THEN d[CHOOSE i \in 1..Len(d) : d[i][1] = k][2]
    ELSE default

dict_keys(d) == [i \in 1..Len(d) |-> d[i][1]]

(***************************************************************************)
(* scorer.py: the static tables                                            *)
(***************************************************************************)
low == <<"low">>
medium == <<"medium">>
high == <<"high">>

conservative == <<"c", "o", "n", "s", "e", "r", "v", "a", "t", "i", "v", "e">>
moderate == <<"m", "o", "d", "e", "r", "a", "t", "e">>
aggressive == <<"a", "g", "g", "r", "e", "s", "s", "i", "v", "e">>

clear_match == <<"clear_match">>
proceed_with_caution == <<"proceed_with_caution">>
not_suitable == <<"not_suitable">>

\* Faulty variant of VOLATILITY_MAP_literal: V, which follows the medium
\* entries in the source, is given their tier.
VOLATILITY_MAP_v_medium ==
    << <<<<"A", "A", "P", "L">>, low>>,
       <<<<"M", "S", "F", "T">>, low>>,
       <<<<"B", "R", "K", ".", "B">>, low>>,
       <<<<"J", "N", "J">>, low>>,
       <<<<"G", "O", "O", "G", "L">>, medium>>,
       <<<<"A", "M", "Z", "N">>, medium>>,
       <<<<"M", "E", "T", "A">>, medium>>,
       <<<<"V">>, medium>>,
       <<<<"T", "S", "L", "A">>, high>>,
       <<<<"N", "V", "D", "A">>, high>>,
       <<<<"A", "M", "D">>, high>>,
       <<<<"C", "O", "I", "N">>, high>> >>

\* The dict literal bound to VOLATILITY_MAP when the module is loaded.
VOLATILITY_MAP_literal ==
    << <<<<"A", "A", "P", "L">>, low>>,
       <<<<"M", "S", "F", "T">>, low>>,
       <<<<"B", "R", "K", ".", "B">>, low>>,
       <<<<"J", "N", "J">>, low>>,
       <<<<"G", "O", "O", "G", "L">>, medium>>,
       <<<<"A", "M", "Z", "N">>, medium>>,
       <<<<"M", "E", "T", "A">>, medium>>,
       <<<<"V">>, low>>,
       <<<<"T", "S", "L", "A">>, high>>,
       <<<<"N", "V", "D", "A">>, high>>,
       <<<<"A", "M", "D">>, high>>,
       <<<<"C", "O", "I", "N">>, high>> >>

\* The dict literal bound to SUITABILITY_MATRIX when the module is loaded:
\* (risk_profile, volatility) -> (suitability, reasoning).
SUITABILITY_MATRIX_literal ==
    << << <<conservative, low>>,
          <<clear_match,
            <<"Established company with stable earnings and low price volatility - well aligned with conservative capital preservation goals.">> >> >>,
       << <<conservative, medium>>,
          <<proceed_with_caution,
            <<"Moderate volatility may cause drawdowns that exceed conservative risk tolerance. Consider limiting position size.">> >> >>,
       << <<conservative, high>>,
          <<not_suitable,
            <<"High price volatility is inappropriate for a conservative portfolio. Capital preservation should be the priority for this client.">> >> >>,
       << <<moderate, low>>,
          <<clear_match,
            <<"Stable investment provides a solid foundation for a balanced portfolio.">> >> >>,
       << <<moderate, medium>>,
          <<clear_match,
            <<"Volatility aligns well with moderate risk tolerance and growth objectives.">> >> >>,
       << <<moderate, high>>,
          <<proceed_with_caution,
            <<"Higher volatility than typical moderate allocation. Keep position size proportionate to overall portfolio risk budget.">> >> >>,
       << <<aggressive, low>>,
          <<clear_match,
            <<"Quality, stable company suitable as a defensive anchor in a growth portfolio.">> >> >>,
       << <<aggressive, medium>>,
          <<clear_match,
            <<"Good growth-oriented investment with manageable volatility for this risk profile.">> >> >>,
       << <<aggressive, high>>,
          <<clear_match,
            <<"High growth potential is appropriate for an aggressive risk tolerance. Ensure portfolio-level diversification is maintained.">> >> >> >>

(***************************************************************************)
(* scorer.py: handler                                                      *)
(***************************************************************************)
\* The response slot while handler has not returned.
NoResponse == [statusCode |-> 0, body |-> <<>>]

\* A record written to the logger: its level and its format string.
info(fmt) == [level |-> "INFO", fmt |-> fmt]

error(fmt) == [level |-> "ERROR", fmt |-> fmt]

\* Faulty variant of _error_response: the error is reported as a server
\* error.
_error_response_500(message) ==
    [log      |-> <<error("Validation error: %s")>>,
     response |-> [statusCode |-> 500, body |-> << <<"error", message>> >>]]

\* _error_response(message): the record it logs and the dict it returns.
_error_response(message) ==
    [log      |-> <<error("Validation error: %s")>>,
     response |-> [statusCode |-> 400, body |-> << <<"error", message>> >>]]

\* Values of an event that are not of type str: JSON null, decoded to None,
\* and a JSON number, decoded to an int.  Neither has .strip().
None == <<"NoneType">>

seven == <<"int", "7">>

\* v is of type str.
isinstance_str(v) == v = <<>> \/ Head(v) \notin {"NoneType", "int"}

\* Lines 103-104: .strip() is called on what event.get returns for "ticker"
\* and for "risk_profile"; a value that is not a str has no such method.
raises_AttributeError(ev) ==
    \/ ~isinstance_str(dict_get(ev, "ticker", <<>>))
    \/ ~isinstance_str(dict_get(ev, "risk_profile", <<>>))

\* Faulty variant of ticker: the value is not upper-cased.
ticker_no_upper(ev) == strip(dict_get(ev, "ticker", <<>>))

\* Faulty variant of ticker: the value is not trimmed.
ticker_no_strip(ev) == upper(dict_get(ev, "ticker", <<>>))

\* ticker = event.get("ticker", "").strip().upper()
ticker(ev) == upper(strip(dict_get(ev, "ticker", <<>>)))

\* risk_profile = event.get("risk_profile", "").strip().lower()
risk_profile(ev) == lower(strip(dict_get(ev, "risk_profile", <<>>)))

\* Faulty variant of valid_profiles: aggressive is missing.
valid_profiles_two == {conservative, moderate}

valid_profiles == {conservative, moderate, aggressive}

\* The message of the risk_profile validation error.
risk_profile_message(rp) ==
    <<"risk_profile must be one of: ">> \o join(<<",", " ">>, sorted(valid_profiles))
        \o <<". Received: '">> \o rp \o <<"'">>

\* Faulty variant of volatility: unlisted tickers default to high.
volatility_default_high(t, vmap) == dict_get(vmap, t, high)

\* Faulty variant of volatility: unlisted tickers default to low.
volatility_default_low(t, vmap) == dict_get(vmap, t, low)

\* Faulty variant of volatility: unlisted tickers get a tier the matrix does
\* not have.
volatility_default_unknown(t, vmap) == dict_get(vmap, t, <<"unknown">>)

\* volatility = VOLATILITY_MAP.get(ticker, "medium")
volatility(t, vmap) == dict_get(vmap, t, medium)

\* SUITABILITY_MATRIX.get((risk_profile, volatility), (<fallback>))
fallback ==
    <<proceed_with_caution, <<"Suitability could not be determined with available data.">>>>

\* Faulty variant of suitability_reasoning: the key is built in the wrong
\* order.
suitability_reasoning_swapped(rp, vol, matrix) == dict_get(matrix, <<vol, rp>>, fallback)

suitability_reasoning(rp, vol, matrix) == dict_get(matrix, <<rp, vol>>, fallback)

\* Faulty variant of handler_run: the risk_profile is validated before the
\* ticker.
handler_run_profile_first(ev, vmap, matrix) ==
    LET t   == ticker(ev)
        rp  == risk_profile(ev)
        entered == <<info("Risk scorer invoked with event: %s")>>
    IN  IF rp \notin valid_profiles
        THEN LET r == _error_response(risk_profile_message(rp))
             IN  [log |-> entered \o r.log, response |-> r.response]
        ELSE IF t = <<>>
        THEN LET r == _error_response(<<"ticker is required">>)
             IN  [log |-> entered \o r.log, response |-> r.response]
        ELSE LET vol    == volatility(t, vmap)
                 sr     == suitability_reasoning(rp, vol, matrix)
                 result == << <<"ticker", t>>,
                              <<"risk_profile", rp>>,
                              <<"suitability", sr[1]>>,
                              <<"reasoning", sr[2]>>,
                              <<"volatility_assessed", vol>> >>
             IN  [log |-> entered
                          \o <<info("Ticker=%s volatility=%s risk_profile=%s"),
                               info("Assessment result: %s")>>,
                  response |-> [statusCode |-> 200, body |-> result]]

\* One run of handler on event ev with the tables as they are: the records
\* it logs and the dict it returns.
handler_run(ev, vmap, matrix) ==
    LET t   == ticker(ev)
        rp  == risk_profile(ev)
        entered == <<info("Risk scorer invoked with event: %s")>>
    IN  IF t = <<>>
        THEN LET r == _error_response(<<"ticker is required">>)
             IN  [log |-> entered \o r.log, response |-> r.response]
        ELSE IF rp \notin valid_profiles
        THEN LET r == _error_response(risk_profile_message(rp))
             IN  [log |-> entered \o r.log, response |-> r.response]
        ELSE LET vol    == volatility(t, vmap)
                 sr     == suitability_reasoning(rp, vol, matrix)
                 result == << <<"ticker", t>>,
                              <<"risk_profile", rp>>,
                              <<"suitability", sr[1]>>,
                              <<"reasoning", sr[2]>>,
                              <<"volatility_assessed", vol>> >>
             IN  [log |-> entered
                          \o <<info("Ticker=%s volatility=%s risk_profile=%s"),
                               info("Assessment result: %s")>>,
                  response |-> [statusCode |-> 200, body |-> result]]

\* Faulty variant of handler: the matrix lookup is done with pop, which
\* removes the cell it returns.
handler_pop ==
    /\ pc = "invoked"
    /\ LET r == handler_run(event, VOLATILITY_MAP, SUITABILITY_MATRIX)
           k == <<risk_profile(event), volatility(ticker(event), VOLATILITY_MAP)>>
       IN  /\ response' = r.response
           /\ log' = r.log
           /\ SUITABILITY_MATRIX' =
                 IF r.response.statusCode = 200
                 THEN SelectSeq(SUITABILITY_MATRIX, LAMBDA item : item[1] # k)
                 ELSE SUITABILITY_MATRIX
    /\ pc' = "returned"
    /\ UNCHANGED <<VOLATILITY_MAP, event, earlier>>
    /\ UNCHANGED <<calendar_vars, agent_vars, runner_vars>>

\* Faulty variant of handler: the volatility lookup is done with setdefault,
\* which stores the default under an unlisted ticker.
handler_setdefault ==
    /\ pc = "invoked"
    /\ LET r == handler_run(event, VOLATILITY_MAP, SUITABILITY_MATRIX)
       IN  /\ response' = r.response
           /\ log' = r.log
           /\ VOLATILITY_MAP' =
                 IF r.response.statusCode = 200 /\ ~dict_has(VOLATILITY_MAP, ticker(event))
                 THEN Append(VOLATILITY_MAP, <<ticker(event), medium>>)
                 ELSE VOLATILITY_MAP
    /\ pc' = "returned"
    /\ UNCHANGED <<SUITABILITY_MATRIX, event, earlier>>
    /\ UNCHANGED <<calendar_vars, agent_vars, runner_vars>>

\* handler(event, context): runs to its return, or to the AttributeError
\* lines 103-104 raise; it reads both tables and assigns neither.
handler ==
    /\ pc = "invoked"
    /\ IF raises_AttributeError(event)
       THEN /\ response' = NoResponse
            /\ log' = <<info("Risk scorer invoked with event: %s")>>
            /\ pc' = "raised"
       ELSE LET r == handler_run(event, VOLATILITY_MAP, SUITABILITY_MATRIX)
            IN  /\ response' = r.response
                /\ log' = r.log
                /\ pc' = "returned"
    /\ UNCHANGED <<VOLATILITY_MAP, SUITABILITY_MATRIX, event, earlier>>
    /\ UNCHANGED <<calendar_vars, agent_vars, runner_vars>>

(***************************************************************************)
(* The Lambda runtime: the events it delivers                              *)
(***************************************************************************)
IBM == <<"I", "B", "M">>
bogus == <<"b", "o", "g", "u", "s">>

\* n whitespace characters.
pad(n) == [i \in 1..n |-> IF i % 2 = 1 THEN " " ELSE "\t"]

\* s in another letter case.
recase(s, c) ==
    CASE c = "upper" -> upper(s)
      [] c = "lower" -> lower(s)
      [] c = "title" -> IF s = <<>> THEN s ELSE upper(<<Head(s)>>) \o lower(Tail(s))

\* The spellings of s that differ from it in letter case and in leading and
\* trailing whitespace only.
Variants(s) ==
    {pad(l) \o recase(s, c) \o pad(r) :
        c \in {"upper", "lower", "title"}, l \in 0..MaxPad, r \in 0..MaxPad}

\* Tickers: every key of the volatility table, an unlisted one, the empty one.
TickerBases == {VOLATILITY_MAP_literal[i][1] : i \in 1..Len(VOLATILITY_MAP_literal)} \cup {IBM, <<>>}

ProfileBases == {conservative, moderate, aggressive, bogus, <<>>}

\* The events with the given ticker and risk_profile values; either key may
\* be absent.
EventsOver(tickers, profiles) ==
    {t \o p : t \in {<<>>} \cup {<< <<"ticker", v>> >> : v \in tickers},
              p \in {<<>>} \cup {<< <<"risk_profile", v>> >> : v \in profiles}}

BaseEvents == EventsOver(TickerBases, ProfileBases)

Events == EventsOver(UNION {Variants(b) : b \in TickerBases},
                     UNION {Variants(b) : b \in ProfileBases})

\* The calendar server has no call in progress.
CalendarIdle ==
    /\ calls = <<>>
    /\ clock = [ordinal |-> 1, tod |-> 0]
    /\ ticks = 0

\* Neither the agent's process nor the test script has been started.
ScriptsIdle ==
    /\ environ = <<>>
    /\ tools = <<>>
    /\ system_prompt = <<>>
    /\ agent_pc = "absent"
    /\ main = [pc |-> "absent"]

\* No earlier call has been recorded.
NoCall == [set |-> FALSE, event |-> <<>>, response |-> NoResponse, between |-> FALSE]

\* The module has been loaded and the runtime has handed one event to handler.
Init ==
    /\ VOLATILITY_MAP = VOLATILITY_MAP_literal
    /\ SUITABILITY_MATRIX = SUITABILITY_MATRIX_literal
    /\ event \in Events
    /\ pc = "invoked"
    /\ response = NoResponse
    /\ log = <<>>
    /\ earlier = NoCall
    /\ CalendarIdle
    /\ ScriptsIdle

Next == handler

\* One invocation of handler on any event.
Spec == Init /\ [][Next]_vars

\* The events whose values may be of another type than str.
UntypedEvents == EventsOver(TickerBases \cup {None, seven}, ProfileBases \cup {None, seven})

InitUntyped ==
    /\ VOLATILITY_MAP = VOLATILITY_MAP_literal
    /\ SUITABILITY_MATRIX = SUITABILITY_MATRIX_literal
    /\ event \in UntypedEvents
    /\ pc = "invoked"
    /\ response = NoResponse
    /\ log = <<>>
    /\ earlier = NoCall
    /\ CalendarIdle
    /\ ScriptsIdle

\* One invocation of handler on an event with values of any JSON type.
SpecUntyped == InitUntyped /\ [][Next]_vars

\* The runtime hands the next event to the warm handler; the module globals
\* persist between invocations.
invoke(ev) ==
    /\ pc = "returned"
    /\ event' = ev
    /\ pc' = "invoked"
    /\ response' = NoResponse
    /\ log' = <<>>
    /\ earlier' = IF earlier.set /\ ev # earlier.event
                  THEN [earlier EXCEPT !.between = TRUE]
                  ELSE earlier
    /\ UNCHANGED <<VOLATILITY_MAP, SUITABILITY_MATRIX>>
    /\ UNCHANGED <<calendar_vars, agent_vars, runner_vars>>

\* The caller keeps the event and the response of the call that has just
\* returned, to compare a later call with.
observe ==
    /\ pc = "returned"
    /\ earlier' = [set |-> TRUE, event |-> event, response |-> response, between |-> FALSE]
    /\ UNCHANGED <<VOLATILITY_MAP, SUITABILITY_MATRIX, event, pc, response, log>>
    /\ UNCHANGED <<calendar_vars, agent_vars, runner_vars>>

InitSeq ==
    /\ VOLATILITY_MAP = VOLATILITY_MAP_literal
    /\ SUITABILITY_MATRIX = SUITABILITY_MATRIX_literal
    /\ event \in BaseEvents
    /\ pc = "invoked"
    /\ response = NoResponse
    /\ log = <<>>
    /\ earlier = NoCall
    /\ CalendarIdle
    /\ ScriptsIdle

NextSeq ==
    \/ handler
    \/ \E ev \in BaseEvents : invoke(ev)
    \/ observe

\* Any sequence of invocations of handler.
SpecSeq == InitSeq /\ [][NextSeq]_vars

(***************************************************************************)
(* datetime, as server.py uses it                                          *)
(*                                                                         *)
(* A datetime is its proleptic day number (ordinal, counted from the first *)
(* day of EpochYear) and its time of day in hours (tod).  The text         *)
(* "YYYY-MM-DD" is the triple of its three numeric fields.                 *)
(***************************************************************************)
EpochYear == 2024

IsLeap(y) == (y % 4 = 0 /\ y % 100 # 0) \/ y % 400 = 0

DaysInYear(y) == IF IsLeap(y) THEN 366 ELSE 365

DaysInMonth(y, m) ==
    IF m = 2 THEN (IF IsLeap(y) THEN 29 ELSE 28)
    ELSE IF m \in {4, 6, 9, 11} THEN 30 ELSE 31

RECURSIVE DaysBeforeYear(_)
DaysBeforeYear(y) ==
    IF y <= EpochYear THEN 0 ELSE DaysBeforeYear(y - 1) + DaysInYear(y - 1)

RECURSIVE DaysBeforeMonth(_, _)
DaysBeforeMonth(y, m) ==
    IF m <= 1 THEN 0 ELSE DaysBeforeMonth(y, m - 1) + DaysInMonth(y, m - 1)

\* date(y, m, d).toordinal()
toordinal(y, m, d) == DaysBeforeYear(y) + DaysBeforeMonth(y, m) + d

RECURSIVE YearOfOrdinal(_, _)
YearOfOrdinal(n, y) ==
    IF n <= DaysInYear(y) THEN <<y, n>> ELSE YearOfOrdinal(n - DaysInYear(y), y + 1)

RECURSIVE MonthOfDay(_, _, _)
MonthOfDay(y, n, m) ==
    IF n <= DaysInMonth(y, m) THEN <<m, n>> ELSE MonthOfDay(y, n - DaysInMonth(y, m), m + 1)

\* date.fromordinal(n) as <<year, month, day>>
fromordinal(n) ==
    LET yn == YearOfOrdinal(n, EpochYear)
        md == MonthOfDay(yn[1], yn[2], 1)
    IN  <<yn[1], md[1], md[2]>>

\* datetime(y, m, d, hour)
datetime(y, m, d, hour) == [ordinal |-> toordinal(y, m, d), tod |-> hour]

\* dt.year
year(dt) == fromordinal(dt.ordinal)[1]

\* Faulty variant of plus_days: the first day is counted as one of the n.
plus_days_exclusive(dt, n) == [ordinal |-> dt.ordinal + n - 1, tod |-> dt.tod]

\* dt + timedelta(days=n): the time of day is kept.
plus_days(dt, n) == [ordinal |-> dt.ordinal + n, tod |-> dt.tod]

\* dt.date(): the time of day is dropped.
date(dt) == dt.ordinal

\* dt.strftime("%Y-%m-%d")
strftime(dt) == fromordinal(dt.ordinal)

\* datetime.strptime(text, "%Y-%m-%d"): midnight of the day the text names.
strptime(text) == [ordinal |-> toordinal(text[1], text[2], text[3]), tod |-> 0]

\* str(n) for an int, as an f-string formats it.
str(n) == <<ToString(n)>>

(***************************************************************************)
(* server.py: check_market_holidays                                        *)
(*                                                                         *)
(* The dicts of server.py have literal keys and values of several types:   *)
(* they are records.  A call is a frame of calls; it is suspended at       *)
(* `await client.get(url)` between its steps.                              *)
(***************************************************************************)
\* Largest number of times the clock advances during a run.
MaxTicks == 1

\* Hours by which one tick advances the clock.
TickHours == 12

AU == <<"AU">>
US == <<"US">>
XX == <<"XX">>

NAGER_DATE_BASE_URL == <<"https://date.nager.at/api/v3">>

\* f"{NAGER_DATE_BASE_URL}/PublicHolidays/{year}/{country_code}"
url(y, country_code) ==
    NAGER_DATE_BASE_URL \o <<"/PublicHolidays/">> \o str(y) \o <<"/">> \o country_code

\* The countries the holiday service knows.
KnownCountries == {AU, US}

\* The listing the holiday service holds for a year and a known country.
PublicHolidays(y, country_code) ==
    IF country_code = AU
    THEN << [date |-> <<y, 1, 1>>,   localName |-> <<"New Year's Day">>],
            [date |-> <<y, 1, 26>>,  localName |-> <<"Australia Day">>],
            [date |-> <<y, 12, 25>>, localName |-> <<"Christmas Day">>],
            [date |-> <<y, 12, 26>>, localName |-> <<"Boxing Day">>] >>
    ELSE << [date |-> <<y, 1, 1>>,   localName |-> <<"New Year's Day">>],
            [date |-> <<y, 7, 4>>,   localName |-> <<"Independence Day">>],
            [date |-> <<y, 12, 25>>, localName |-> <<"Christmas Day">>] >>

\* What `await client.get(url)` followed by raise_for_status() and json()
\* comes to: a decoded listing, an HTTPStatusError with the status code of
\* the response, or a RequestError.
got_json(listing) == [kind |-> "json", status_code |-> 200, json |-> listing]

got_status_error(code) == [kind |-> "HTTPStatusError", status_code |-> code, json |-> <<>>]

got_request_error == [kind |-> "RequestError", status_code |-> 0, json |-> <<>>]

\* The status codes raise_for_status() raises for, as far as they are
\* told apart: 404 and others.
ErrorStatuses == {400, 404, 500}

\* Faulty variant of sorted_years: every year from today's to end_date's.
sorted_years_range(today, end_date) ==
    [i \in 1..(year(end_date) - year(today) + 1) |-> year(today) + i - 1]

\* years = {today.year}, plus end_date.year when it differs; sorted(years).
sorted_years(today, end_date) ==
    IF year(end_date) # year(today)
    THEN (IF year(today) < year(end_date)
          THEN <<year(today), year(end_date)>>
          ELSE <<year(end_date), year(today)>>)
    ELSE <<year(today)>>

\* Faulty variant of in_window: the lower end is not tested.
in_window_no_lower(holiday, today, end_date) ==
    date(strptime(holiday.date)) <= date(end_date)

\* Faulty variant of in_window: the datetimes are compared, not their dates.
in_window_datetimes(holiday, today, end_date) ==
    LET holiday_date == strptime(holiday.date)
        le(a, b) == a.ordinal < b.ordinal \/ (a.ordinal = b.ordinal /\ a.tod <= b.tod)
    IN  le(today, holiday_date) /\ le(holiday_date, end_date)

\* today.date() <= holiday_date.date() <= end_date.date()
in_window(holiday, today, end_date) ==
    LET holiday_date == strptime(holiday.date)
    IN  date(today) <= date(holiday_date) /\ date(holiday_date) <= date(end_date)

\* Faulty variant of entry: the holiday is flagged as a trading day.
entry_trading_day(holiday) ==
    [date |-> holiday.date, name |-> holiday.localName, is_trading_day |-> TRUE]

\* The entry appended to upcoming for a holiday.
entry(holiday) ==
    [date |-> holiday.date, name |-> holiday.localName, is_trading_day |-> FALSE]

\* The loop that filters all_holidays to the requested window.
RECURSIVE upcoming(_, _, _)
upcoming(all_holidays, today, end_date) ==
    IF all_holidays = <<>> THEN <<>>
    ELSE (IF in_window(Head(all_holidays), today, end_date)
          THEN <<entry(Head(all_holidays))>>
          ELSE <<>>) \o upcoming(Tail(all_holidays), today, end_date)

\* Faulty variant of advice: a single closure is reported as none.
advice_plural_only(up, days_ahead) ==
    IF Len(up) > 1
    THEN str(Len(up)) \o <<" market closure(s) in the next ">> \o str(days_ahead)
            \o <<" days. ">> \o <<"Plan trade executions and client meetings accordingly.">>
    ELSE <<"No scheduled market closures in the next ">> \o str(days_ahead) \o <<" days.">>

\* The advice of a success response.
advice(up, days_ahead) ==
    IF up # <<>>
    THEN str(Len(up)) \o <<" market closure(s) in the next ">> \o str(days_ahead)
            \o <<" days. ">> \o <<"Plan trade executions and client meetings accordingly.">>
    ELSE <<"No scheduled market closures in the next ">> \o str(days_ahead) \o <<" days.">>

\* The dict returned when every fetch has succeeded.
success_response(country_code, days_ahead, today, end_date, up) ==
    [country_code          |-> country_code,
     period_start          |-> strftime(today),
     period_end            |-> strftime(end_date),
     holidays              |-> up,
     trading_days_affected |-> Len(up),
     advice                |-> advice(up, days_ahead)]

\* The dict returned on an HTTPStatusError with status code 404.
not_found_response(country_code) ==
    [error          |-> <<"Country code '">> \o country_code \o <<"' not found in Nager.Date">>,
     valid_examples |-> <<AU, US, <<"GB">>, <<"NZ">>, <<"JP">>>>]

\* The dict returned on an HTTPStatusError with another status code.
status_error_response(code) == [error |-> <<"Holiday API returned ">> \o str(code)]

\* The dict returned on a RequestError.
request_error_response == [error |-> <<"Failed to reach holiday data service">>]

\* Faulty variant of on_status_error: every error status is reported as an
\* unknown country.
on_status_error_any(country_code, code) == not_found_response(country_code)

\* The handling of an HTTPStatusError.
on_status_error(country_code, code) ==
    IF code = 404 THEN not_found_response(country_code) ELSE status_error_response(code)

\* The result slot of a call that has not returned.
NoResult == [pending |-> TRUE]

\* A datetime not yet assigned.
Unset == [ordinal |-> 0, tod |-> 0]

\* The frame of a call with its arguments bound and nothing executed.
called(country_code, days_ahead) ==
    [pc           |-> "called",
     country_code |-> country_code,
     days_ahead   |-> days_ahead,
     today        |-> Unset,
     end_date     |-> Unset,
     years        |-> <<>>,
     all_holidays |-> <<>>,
     requests     |-> <<>>,
     results      |-> <<>>,
     result       |-> NoResult]

\* Lines 48-64: the call reads the clock, computes the window and the years,
\* and issues the GET for the first year.
check_market_holidays(c) ==
    /\ calls[c].pc = "called"
    /\ LET today    == clock
           end_date == plus_days(today, calls[c].days_ahead)
           years    == sorted_years(today, end_date)
       IN  calls' = [calls EXCEPT ![c] =
                        [@ EXCEPT !.pc = "awaiting",
                                  !.today = today,
                                  !.end_date = end_date,
                                  !.years = years,
                                  !.requests = <<url(years[1], calls[c].country_code)>>]]
    /\ UNCHANGED <<clock, ticks>>
    /\ UNCHANGED <<scorer_vars, agent_vars, runner_vars>>

\* The year whose GET call c awaits.
awaited_year(c) == calls[c].years[Len(calls[c].results) + 1]

\* Faulty variant of get_succeeds: the window is computed again from the
\* clock when the listings are filtered.
get_succeeds_rereads_clock(c) ==
    /\ calls[c].pc = "awaiting"
    /\ calls[c].country_code \in KnownCountries
    /\ LET f       == calls[c]
           listing == PublicHolidays(awaited_year(c), f.country_code)
           all     == f.all_holidays \o listing
           results == Append(f.results, got_json(listing))
           now     == clock
           until   == plus_days(clock, f.days_ahead)
       IN  IF Len(results) < Len(f.years)
           THEN calls' = [calls EXCEPT ![c] =
                            [@ EXCEPT !.all_holidays = all,
                                      !.results = results,
                                      !.requests = Append(@, url(f.years[Len(results) + 1],
                                                                 f.country_code))]]
           ELSE calls' = [calls EXCEPT ![c] =
                            [@ EXCEPT !.pc = "returned",
                                      !.all_holidays = all,
                                      !.results = results,
                                      !.result = success_response(
                                          f.country_code, f.days_ahead, now, until,
                                          upcoming(all, now, until))]]
    /\ UNCHANGED <<clock, ticks>>
    /\ UNCHANGED <<scorer_vars, agent_vars, runner_vars>>

\* Faulty variant of get_succeeds: all_holidays is one list of the module,
\* which every call extends and filters.
get_succeeds_shared_list(c) ==
    /\ calls[c].pc = "awaiting"
    /\ calls[c].country_code \in KnownCountries
    /\ LET f       == calls[c]
           listing == PublicHolidays(awaited_year(c), f.country_code)
           others  == IF c = 1 THEN <<>> ELSE calls[1].all_holidays
           all     == others \o f.all_holidays \o listing
           results == Append(f.results, got_json(listing))
       IN  IF Len(results) < Len(f.years)
           THEN calls' = [calls EXCEPT ![c] =
                            [@ EXCEPT !.all_holidays = all,
                                      !.results = results,
                                      !.requests = Append(@, url(f.years[Len(results) + 1],
                                                                 f.country_code))]]
           ELSE calls' = [calls EXCEPT ![c] =
                            [@ EXCEPT !.pc = "returned",
                                      !.all_holidays = all,
                                      !.results = results,
                                      !.result = success_response(
                                          f.country_code, f.days_ahead, f.today, f.end_date,
                                          upcoming(all, f.today, f.end_date))]]
    /\ UNCHANGED <<clock, ticks>>
    /\ UNCHANGED <<scorer_vars, agent_vars, runner_vars>>

\* The text matches "%Y-%m-%d" and names a day of the calendar.
matches_format(text) ==
    /\ Len(text) = 3
    /\ text[2] \in 1..12
    /\ text[3] \in 1..DaysInMonth(text[1], text[2])

\* Lines 81-91: the filter loop raises KeyError on a record without "date",
\* ValueError on a date that strptime cannot parse, and KeyError on a record
\* of the window without "localName".
filter_raises(all_holidays, today, end_date) ==
    \E i \in 1..Len(all_holidays) :
        \/ "date" \notin DOMAIN all_holidays[i]
        \/ ~matches_format(all_holidays[i].date)
        \/ /\ in_window(all_holidays[i], today, end_date)
           /\ "localName" \notin DOMAIN all_holidays[i]

\* response.json() has returned listing to call c: the listing is appended;
\* the call issues the GET for the next year, or filters and returns, or
\* ends with the exception the filter loop raises.
got_listing(c, listing) ==
    LET f       == calls[c]
        all     == f.all_holidays \o listing
        results == Append(f.results, got_json(listing))
    IN  IF Len(results) < Len(f.years)
        THEN calls' = [calls EXCEPT ![c] =
                         [@ EXCEPT !.all_holidays = all,
                                   !.results = results,
                                   !.requests = Append(@, url(f.years[Len(results) + 1],
                                                              f.country_code))]]
        ELSE IF filter_raises(all, f.today, f.end_date)
        THEN calls' = [calls EXCEPT ![c] =
                         [@ EXCEPT !.pc = "raised",
                                   !.all_holidays = all,
                                   !.results = results]]
        ELSE calls' = [calls EXCEPT ![c] =
                         [@ EXCEPT !.pc = "returned",
                                   !.all_holidays = all,
                                   !.results = results,
                                   !.result = success_response(
                                       f.country_code, f.days_ahead, f.today, f.end_date,
                                       upcoming(all, f.today, f.end_date))]]

\* Lines 64-66, then 59-64 or 80-105: the awaited GET succeeds; the listing
\* is appended; the call issues the GET for the next year, or filters and
\* returns.
get_succeeds(c) ==
    /\ calls[c].pc = "awaiting"
    /\ calls[c].country_code \in KnownCountries
    /\ got_listing(c, PublicHolidays(awaited_year(c), calls[c].country_code))
    /\ UNCHANGED <<clock, ticks>>
    /\ UNCHANGED <<scorer_vars, agent_vars, runner_vars>>

\* The listings of a year that the code cannot read: a record of the true
\* listing lacks "date", lacks "localName", or has a date in another form.
MalformedListings(y, country_code) ==
    LET good == PublicHolidays(y, country_code)
        spoilt(h, kind) ==
            CASE kind = "no date"      -> [localName |-> h.localName]
              [] kind = "no localName" -> [date |-> h.date]
              [] kind = "other form"   -> [date |-> <<h.date[3], h.date[2]>>,
                                           localName |-> h.localName]
    IN  {[good EXCEPT ![k] = spoilt(good[k], kind)] :
            k \in {1, Len(good)}, kind \in {"no date", "no localName", "other form"}}

\* Lines 64-66, then 59-64 or 80-105: the awaited GET succeeds at the HTTP
\* level with a listing the code cannot read.
get_succeeds_malformed(c) ==
    /\ calls[c].pc = "awaiting"
    /\ calls[c].country_code \in KnownCountries
    /\ \E listing \in MalformedListings(awaited_year(c), calls[c].country_code) :
            got_listing(c, listing)
    /\ UNCHANGED <<clock, ticks>>
    /\ UNCHANGED <<scorer_vars, agent_vars, runner_vars>>

\* Lines 67-75: the awaited GET is answered with an error status; the call
\* returns an error dict.
get_raises_status_error(c, code) ==
    /\ calls[c].pc = "awaiting"
    /\ calls' = [calls EXCEPT ![c] =
                    [@ EXCEPT !.pc = "returned",
                              !.results = Append(@, got_status_error(code)),
                              !.result = on_status_error(calls[c].country_code, code)]]
    /\ UNCHANGED <<clock, ticks>>
    /\ UNCHANGED <<scorer_vars, agent_vars, runner_vars>>

\* Faulty variant of get_raises_request_error: the failed year is skipped and
\* the call answers with the years fetched so far.
get_raises_request_error_partial(c) ==
    /\ calls[c].pc = "awaiting"
    /\ LET f == calls[c]
       IN  calls' = [calls EXCEPT ![c] =
                        [@ EXCEPT !.pc = "returned",
                                  !.results = Append(@, got_request_error),
                                  !.result = success_response(
                                      f.country_code, f.days_ahead, f.today, f.end_date,
                                      upcoming(f.all_holidays, f.today, f.end_date))]]
    /\ UNCHANGED <<clock, ticks>>
    /\ UNCHANGED <<scorer_vars, agent_vars, runner_vars>>

\* Faulty variant of get_raises_request_error: the failure is remembered and
\* the loop goes on to the next year before the call returns the error.
get_raises_request_error_continues(c) ==
    /\ calls[c].pc = "awaiting"
    /\ LET f       == calls[c]
           results == Append(f.results, got_request_error)
       IN  IF Len(results) < Len(f.years)
           THEN calls' = [calls EXCEPT ![c] =
                            [@ EXCEPT !.results = results,
                                      !.requests = Append(@, url(f.years[Len(results) + 1],
                                                                 f.country_code))]]
           ELSE calls' = [calls EXCEPT ![c] =
                            [@ EXCEPT !.pc = "returned",
                                      !.results = results,
                                      !.result = request_error_response]]
    /\ UNCHANGED <<clock, ticks>>
    /\ UNCHANGED <<scorer_vars, agent_vars, runner_vars>>

\* Lines 76-78: the awaited GET fails in transport; the call returns an
\* error dict.
get_raises_request_error(c) ==
    /\ calls[c].pc = "awaiting"
    /\ calls' = [calls EXCEPT ![c] =
                    [@ EXCEPT !.pc = "returned",
                              !.results = Append(@, got_request_error),
                              !.result = request_error_response]]
    /\ UNCHANGED <<clock, ticks>>
    /\ UNCHANGED <<scorer_vars, agent_vars, runner_vars>>

\* Time passes.
tick ==
    /\ ticks < MaxTicks
    /\ ticks' = ticks + 1
    /\ clock' = IF clock.tod + TickHours < 24
                THEN [clock EXCEPT !.tod = @ + TickHours]
                ELSE [ordinal |-> clock.ordinal + 1, tod |-> clock.tod + TickHours - 24]
    /\ UNCHANGED calls
    /\ UNCHANGED <<scorer_vars, agent_vars, runner_vars>>

\* The arguments and the clock readings of the calls.
Countries == {AU, US, XX}

DaysAheadChoices == {0, 1, 7, 30, 400}

ClockStarts ==
    {datetime(d[1], d[2], d[3], h) :
        d \in {<<2024, 2, 27>>, <<2025, 12, 25>>, <<2025, 12, 28>>, <<2025, 12, 31>>,
               <<2026, 1, 1>>, <<2026, 1, 19>>, <<2026, 6, 10>>},
        h \in {0, 15}}

\* The scorer is loaded and has no invocation.
ScorerIdle ==
    /\ VOLATILITY_MAP = VOLATILITY_MAP_literal
    /\ SUITABILITY_MATRIX = SUITABILITY_MATRIX_literal
    /\ event = <<>>
    /\ pc = "idle"
    /\ response = NoResponse
    /\ log = <<>>
    /\ earlier = NoCall

InitCalendar ==
    /\ ScorerIdle
    /\ ScriptsIdle
    /\ \E cc \in Countries, n \in DaysAheadChoices : calls = <<called(cc, n)>>
    /\ clock \in ClockStarts
    /\ ticks = 0

NextCalendar ==
    \/ \E c \in DOMAIN calls : check_market_holidays(c)
    \/ \E c \in DOMAIN calls : get_succeeds(c)
    \/ \E c \in DOMAIN calls : \E code \in ErrorStatuses : get_raises_status_error(c, code)
    \/ \E c \in DOMAIN calls : get_raises_request_error(c)
    \/ tick

\* One call of check_market_holidays with any arguments.
SpecCalendar == InitCalendar /\ [][NextCalendar]_vars

(***************************************************************************)
(* Vocabulary of the properties                                            *)
(***************************************************************************)
\* The value the event holds under key k, the empty string when k is absent.
Raw(k) == dict_get(event, k, <<>>)

\* The member k of the response body.
Body(k) == dict_get(response.body, k, <<>>)

\* s is empty or consists of whitespace only.
Blank(s) == \A i \in 1..Len(s) : isspace(s[i])

\* The event's ticker after trimming and upper-casing.
TickerKey == upper(strip(Raw("ticker")))

\* The event's risk_profile after trimming and lower-casing.
ProfileKey == lower(strip(Raw("risk_profile")))

ReferenceProfiles == {conservative, moderate, aggressive}

ReferenceLabels == {clear_match, proceed_with_caution, not_suitable}

\* The event passes validation.
ValidEvent == ~Blank(Raw("ticker")) /\ ProfileKey \in ReferenceProfiles

ReferenceLow ==
    {<<"A", "A", "P", "L">>, <<"M", "S", "F", "T">>, <<"B", "R", "K", ".", "B">>,
     <<"J", "N", "J">>, <<"V">>}

ReferenceMedium == {<<"G", "O", "O", "G", "L">>, <<"A", "M", "Z", "N">>, <<"M", "E", "T", "A">>}

ReferenceHigh == {<<"T", "S", "L", "A">>, <<"N", "V", "D", "A">>, <<"A", "M", "D">>, <<"C", "O", "I", "N">>}

\* The reference matrix of the specification: the label of a pair.
ReferenceLabel(p, v) ==
    CASE p = conservative /\ v = low    -> clear_match
      [] p = conservative /\ v = medium -> proceed_with_caution
      [] p = conservative /\ v = high   -> not_suitable
      [] p = moderate     /\ v = low    -> clear_match
      [] p = moderate     /\ v = medium -> clear_match
      [] p = moderate     /\ v = high   -> proceed_with_caution
      [] p = aggressive   /\ v = low    -> clear_match
      [] p = aggressive   /\ v = medium -> clear_match
      [] p = aggressive   /\ v = high   -> clear_match

(***************************************************************************)
(* Properties of handler                                                   *)
(***************************************************************************)
\* C1: for every event whose ticker is non-empty after trimming and whose
\* risk_profile is one of conservative, moderate, aggressive after trimming
\* and lower-casing, handler returns statusCode 200 with a suitability among
\* the three labels and a non-empty reasoning, and the matrix lookup hits a
\* cell of the matrix.
C1_ValidInputsAlwaysAssessed ==
    (pc = "returned" /\ ValidEvent) =>
        /\ response.statusCode = 200
        /\ Body("suitability") \in ReferenceLabels
        /\ Body("reasoning") # <<>>
        /\ \A i \in 1..Len(Body("reasoning")) : Body("reasoning")[i] # ""
        /\ dict_has(SUITABILITY_MATRIX, <<ProfileKey, Body("volatility_assessed")>>)

\* An unlisted ticker and a padded, capitalised aggressive profile have been
\* assessed.
C1_Witness ==
    /\ pc = "returned"
    /\ ValidEvent
    /\ Raw("ticker") = IBM
    /\ Raw("risk_profile") = <<" ">> \o upper(<<"a">>) \o Tail(aggressive) \o <<" ">>
    /\ response.statusCode = 200

\* C2: for each of the nine (risk_profile, volatility) pairs the suitability
\* label handler returns is the label of the reference matrix.
C2_LabelsMatchReferenceMatrix ==
    (pc = "returned" /\ response.statusCode = 200) =>
        \A p \in ReferenceProfiles : \A v \in {low, medium, high} :
            (ProfileKey = p /\ Body("volatility_assessed") = v) =>
                Body("suitability") = ReferenceLabel(p, v)

\* The pair moderate/high has been assessed as proceed_with_caution.
C2_Witness ==
    /\ pc = "returned"
    /\ response.statusCode = 200
    /\ ProfileKey = moderate
    /\ Body("volatility_assessed") = high
    /\ Body("suitability") = proceed_with_caution

\* C3: over all valid inputs handler returns not_suitable exactly when the
\* profile is conservative and the ticker is one of TSLA, NVDA, AMD, COIN; an
\* aggressive profile gets clear_match for every ticker; a moderate profile
\* gets proceed_with_caution only for those high-volatility tickers.
C3_OnlyConservativeHighIsBlocked ==
    (pc = "returned" /\ ValidEvent) =>
        /\ Body("suitability") = not_suitable
              <=> (ProfileKey = conservative /\ TickerKey \in ReferenceHigh)
        /\ ProfileKey = aggressive => Body("suitability") = clear_match
        /\ (ProfileKey = moderate /\ Body("suitability") = proceed_with_caution)
              => TickerKey \in ReferenceHigh

\* A conservative profile has been refused NVDA, spelled in lower case.
C3_Witness ==
    /\ pc = "returned"
    /\ ValidEvent
    /\ Raw("ticker") = <<"n", "v", "d", "a">>
    /\ ProfileKey = conservative
    /\ Body("suitability") = not_suitable

\* C4: for every ticker that is not a key of the volatility table after
\* trimming and upper-casing, handler reports volatility_assessed = medium;
\* every assessment reports one of the three tiers.
C4_UnlistedTickerIsMedium ==
    (pc = "returned" /\ ValidEvent) =>
        /\ ~dict_has(VOLATILITY_MAP, TickerKey) => Body("volatility_assessed") = medium
        /\ Body("volatility_assessed") \in {low, medium, high}

\* An unlisted ticker has been assessed.
C4_Witness ==
    /\ pc = "returned"
    /\ ValidEvent
    /\ TickerKey = IBM
    /\ ~dict_has(VOLATILITY_MAP, TickerKey)
    /\ Body("volatility_assessed") = medium

\* C5: the volatility table holds exactly the reference sets: AAPL, MSFT,
\* BRK.B, JNJ, V are low; GOOGL, AMZN, META are medium; TSLA, NVDA, AMD, COIN
\* are high; there is no other key.
C5_VolatilityTableIsReference ==
    /\ {VOLATILITY_MAP[i][1] : i \in 1..Len(VOLATILITY_MAP)}
          = ReferenceLow \cup ReferenceMedium \cup ReferenceHigh
    /\ Len(VOLATILITY_MAP) = Cardinality(ReferenceLow \cup ReferenceMedium \cup ReferenceHigh)
    /\ \A k \in ReferenceLow : dict_get(VOLATILITY_MAP, k, <<>>) = low
    /\ \A k \in ReferenceMedium : dict_get(VOLATILITY_MAP, k, <<>>) = medium
    /\ \A k \in ReferenceHigh : dict_get(VOLATILITY_MAP, k, <<>>) = high

\* The last low entry of the table, V, has been looked up by an assessment.
C5_Witness ==
    /\ pc = "returned"
    /\ response.statusCode = 200
    /\ TickerKey = <<"V">>
    /\ Body("volatility_assessed") = low

\* The spellings of each base value, tabulated.
VariantsOf == [b \in TickerBases \cup ProfileBases |-> Variants(b)]

\* Events e and b have the same keys, and under each key values that differ
\* in letter case and in leading and trailing whitespace only.
SameUpToCaseAndPadding(e, b) ==
    /\ dict_keys(e) = dict_keys(b)
    /\ \A i \in 1..Len(e) : e[i][2] \in VariantsOf[b[i][2]]

\* C6: handler is insensitive to the letter case and the surrounding
\* whitespace of its inputs: an event gets the response of every event it
\* differs from in these respects only, and a success response echoes the
\* ticker upper-cased and the risk_profile lower-cased.
C6_CaseAndWhitespaceInsensitive ==
    pc = "returned" =>
        \A b \in BaseEvents :
            SameUpToCaseAndPadding(event, b) =>
                /\ response = handler_run(b, VOLATILITY_MAP, SUITABILITY_MATRIX).response
                /\ response.statusCode = 200 =>
                      /\ Body("ticker") = dict_get(b, "ticker", <<>>)
                      /\ Body("risk_profile") = dict_get(b, "risk_profile", <<>>)

\* tsla / CONSERVATIVE has been answered with TSLA, conservative,
\* not_suitable, high.
C6_Witness ==
    /\ pc = "returned"
    /\ event = << <<"ticker", <<"t", "s", "l", "a">>>>,
                  <<"risk_profile", <<"C", "O", "N", "S", "E", "R", "V", "A", "T", "I", "V", "E">>>> >>
    /\ response.statusCode = 200
    /\ Body("ticker") = <<"T", "S", "L", "A">>
    /\ Body("risk_profile") = conservative
    /\ Body("suitability") = not_suitable
    /\ Body("volatility_assessed") = high

\* C7: when the ticker is absent from the event, empty, or empty after
\* trimming, handler answers statusCode 400 with a body whose only member is
\* error = "ticker is required".
C7_TickerRequired ==
    (pc = "returned" /\ (~dict_has(event, "ticker") \/ Blank(Raw("ticker")))) =>
        response = [statusCode |-> 400,
                    body |-> << <<"error", <<"ticker is required">>>> >>]

\* A ticker of whitespace only, sent with a valid risk_profile, has been
\* refused.
C7_Witness ==
    /\ pc = "returned"
    /\ dict_has(event, "ticker")
    /\ Raw("ticker") # <<>>
    /\ Blank(Raw("ticker"))
    /\ ProfileKey = moderate
    /\ response.statusCode = 400

\* The risk_profile error message for the received value v.
ReferenceProfileMessage(v) ==
    <<"risk_profile must be one of: ">>
        \o aggressive \o <<",", " ">> \o conservative \o <<",", " ">> \o moderate
        \o <<". Received: '">> \o v \o <<"'">>

\* C8: when the ticker is valid and the trimmed, lower-cased risk_profile is
\* not one of conservative, moderate, aggressive (also when the key is
\* absent), handler answers statusCode 400 with the message that lists
\* aggressive, conservative, moderate in this order, followed by
\* Received: '<value>' with the trimmed, lower-cased value.
C8_InvalidProfileMessage ==
    (pc = "returned" /\ ~Blank(Raw("ticker")) /\ ProfileKey \notin ReferenceProfiles) =>
        response = [statusCode |-> 400,
                    body |-> << <<"error", ReferenceProfileMessage(ProfileKey)>> >>]

\* AAPL with the risk_profile bogus has been refused.
C8_Witness ==
    /\ pc = "returned"
    /\ TickerKey = <<"A", "A", "P", "L">>
    /\ Raw("risk_profile") = bogus
    /\ response.statusCode = 400

\* C9: handler returns statusCode 400 with a body holding only error exactly
\* when validation fails, and statusCode 200 with a body holding exactly
\* ticker, risk_profile, suitability, reasoning and volatility_assessed
\* otherwise; it returns no other status code.
C9_EnvelopeShape ==
    pc = "returned" =>
        /\ response.statusCode \in {200, 400}
        /\ response.statusCode = 400 <=> ~ValidEvent
        /\ response.statusCode = 400 => dict_keys(response.body) = <<"error">>
        /\ response.statusCode = 200 =>
              /\ Len(response.body) = 5
              /\ {response.body[i][1] : i \in 1..Len(response.body)}
                    = {"ticker", "risk_profile", "suitability", "reasoning",
                       "volatility_assessed"}

\* An event without risk_profile has been refused with an error-only body.
C9_Witness ==
    /\ pc = "returned"
    /\ ~Blank(Raw("ticker"))
    /\ ~dict_has(event, "risk_profile")
    /\ response.statusCode = 400
    /\ dict_keys(response.body) = <<"error">>

\* C10: a call of handler with the event of an earlier call returns the
\* response of that earlier call, whatever calls were made in between.
C10_SameEventSameResponse ==
    (pc = "returned" /\ earlier.set /\ earlier.event = event) =>
        response = earlier.response

\* An assessment has been repeated after a call with another event.
C10_Witness ==
    /\ pc = "returned"
    /\ earlier.set
    /\ earlier.between
    /\ earlier.event = event
    /\ response.statusCode = 200
    /\ Body("suitability") = not_suitable

\* C11: no call of handler, successful or failing, changes the volatility
\* table or the suitability matrix: no step of any sequence of invocations
\* changes either.
C11_TablesNeverChange ==
    [][/\ VOLATILITY_MAP' = VOLATILITY_MAP
       /\ SUITABILITY_MATRIX' = SUITABILITY_MATRIX]_vars

\* A failing call and then a successful call on an unlisted ticker have
\* returned, and the tables are the ones the module was loaded with.
C11_Witness ==
    /\ pc = "returned"
    /\ earlier.set
    /\ earlier.response.statusCode = 400
    /\ response.statusCode = 200
    /\ TickerKey = IBM
    /\ VOLATILITY_MAP = VOLATILITY_MAP_literal
    /\ SUITABILITY_MATRIX = SUITABILITY_MATRIX_literal

\* The arguments and the clock readings of two calls in flight together.
PairCountries == {AU, XX}

PairDaysAheadChoices == {1, 7}

PairClockStarts == {datetime(2025, 12, 28, 0), datetime(2025, 12, 31, 15)}

InitPair ==
    /\ ScorerIdle
    /\ ScriptsIdle
    /\ \E cc1 \in PairCountries, cc2 \in PairCountries,
          n1 \in PairDaysAheadChoices, n2 \in PairDaysAheadChoices :
            calls = <<called(cc1, n1), called(cc2, n2)>>
    /\ clock \in PairClockStarts
    /\ ticks = 0

\* Two calls of check_market_holidays, interleaved in any way.
SpecPair == InitPair /\ [][NextCalendar]_vars

\* The arguments of two calls in flight while the scorer is invoked.
MixedCountries == {AU, US}

MixedDaysAheadChoices == {7}

MixedEvents ==
    {<< <<"ticker", <<"A", "A", "P", "L">>>>, <<"risk_profile", conservative>> >>,
     << <<"ticker", IBM>>, <<"risk_profile", bogus>> >>,
     << <<"risk_profile", moderate>> >>}

InitMixed ==
    /\ VOLATILITY_MAP = VOLATILITY_MAP_literal
    /\ SUITABILITY_MATRIX = SUITABILITY_MATRIX_literal
    /\ event = << <<"ticker", IBM>>, <<"risk_profile", aggressive>> >>
    /\ pc = "invoked"
    /\ response = NoResponse
    /\ log = <<>>
    /\ earlier = NoCall
    /\ ScriptsIdle
    /\ \E cc1 \in MixedCountries, cc2 \in MixedCountries, n \in MixedDaysAheadChoices :
            calls = <<called(cc1, n), called(cc2, n)>>
    /\ clock \in PairClockStarts
    /\ ticks = 0

NextMixed ==
    \/ NextCalendar
    \/ handler
    \/ \E ev \in MixedEvents : invoke(ev)

\* Two calls of check_market_holidays and any number of invocations of
\* handler, interleaved in any way.
SpecMixed == InitMixed /\ [][NextMixed]_vars

\* Look-back arguments: days_ahead is any int.
SignedDaysAheadChoices == {-7, -1, 0}

InitSigned ==
    /\ ScorerIdle
    /\ ScriptsIdle
    /\ \E cc \in Countries, n \in SignedDaysAheadChoices : calls = <<called(cc, n)>>
    /\ clock \in ClockStarts
    /\ ticks = 0

\* One call of check_market_holidays with days_ahead zero or negative.
SpecSigned == InitSigned /\ [][NextCalendar]_vars

\* The arguments of a call whose fetches may be answered with listings
\* the code cannot read.
MalformedDaysAheadChoices == {7, 30}

InitMalformed ==
    /\ ScorerIdle
    /\ ScriptsIdle
    /\ \E cc \in Countries, n \in MalformedDaysAheadChoices : calls = <<called(cc, n)>>
    /\ clock \in ClockStarts
    /\ ticks = 0

NextMalformed ==
    \/ NextCalendar
    \/ \E c \in DOMAIN calls : get_succeeds_malformed(c)

\* One call of check_market_holidays whose fetches may be answered with
\* any listing.
SpecMalformed == InitMalformed /\ [][NextMalformed]_vars

(***************************************************************************)
(* src/agent/app.py: the start-up of the agent                             *)
(*                                                                         *)
(* A tool function is its name.  The system prompt is the sequence of the  *)
(* pieces that the "\n" of the f-string and of the joins separate.         *)
(***************************************************************************)
\* tool_config: (env_var, tool_func, log_msg).
tool_config ==
    << <<"ENABLE_GATEWAY", "get_stock_price",
         "Gateway enabled - stock price tool available">>,
       <<"ENABLE_LAMBDA_TARGET", "assess_client_suitability",
         "Lambda target enabled - risk scoring tool available">>,
       <<"ENABLE_MCP_TARGET", "check_market_holidays",
         "MCP target enabled - market calendar tool available">> >>

\* os.environ.get(env_var, "false").lower() == "true"
enabled(env, env_var) ==
    lower(dict_get(env, env_var, <<"f", "a", "l", "s", "e">>)) = <<"t", "r", "u", "e">>

\* The loop of lines 113-116 over config: the tools appended, in order.
RECURSIVE registered(_, _)
registered(env, config) ==
    IF config = <<>> THEN <<>>
    ELSE (IF enabled(env, Head(config)[1]) THEN <<Head(config)[2]>> ELSE <<>>)
            \o registered(env, Tail(config))

has_stock_tool(env) == enabled(env, "ENABLE_GATEWAY")

has_lambda_tool(env) == enabled(env, "ENABLE_LAMBDA_TARGET")

has_mcp_tool(env) == enabled(env, "ENABLE_MCP_TARGET")

base_prompt ==
    "You are MarketPulse, an AI investment brief assistant for financial advisors.\n\nYour role is to help advisors prepare for client meetings by providing:"

\* Lines 132-143.
tool_descriptions(env) ==
    LET described ==
            (IF has_stock_tool(env)
             THEN <<"- Current stock information using the get_stock_price tool">>
             ELSE <<>>)
            \o (IF has_lambda_tool(env)
                THEN <<"- Risk assessments using the assess_client_suitability tool">>
                ELSE <<>>)
            \o (IF has_mcp_tool(env)
                THEN <<"- Market calendar information using the check_market_holidays tool">>
                ELSE <<>>)
    IN  IF described = <<>>
        THEN <<"- Stock information (when tools are available)",
               "- Risk assessments (when tools are available)",
               "- Market calendar information (when tools are available)">>
        ELSE described

\* Lines 145-157.
guidelines(env) ==
    <<"Always be professional, concise, and focused on actionable insights.",
      "Risk profiles are: conservative, moderate, or aggressive.">>
    \o (IF has_lambda_tool(env)
        THEN <<"When helping with suitability queries, always retrieve the current stock price first, then assess suitability. Present both together as a concise brief.">>
        ELSE <<>>)
    \o (IF has_mcp_tool(env)
        THEN <<"When discussing trade timing, check for upcoming market holidays. Alert the advisor to any closures that could affect execution.">>
        ELSE <<>>)
    \o (IF has_stock_tool(env)
        THEN <<"When providing stock prices, always cite the ticker symbol and mention that data is real-time from Finnhub.">>
        ELSE <<"In this initial version, you don't have access to live data tools yet. Provide general guidance based on your training data knowledge.">>)

\* Line 159.
built_system_prompt(env) ==
    <<base_prompt>> \o tool_descriptions(env) \o <<"">> \o guidelines(env)

\* Lines 103-166: app.py is imported; the tool list and the system prompt
\* are assembled from the environment and the agent is created from them.
load ==
    /\ agent_pc = "loading"
    /\ tools' = registered(environ, tool_config)
    /\ system_prompt' = built_system_prompt(environ)
    /\ agent_pc' = "loaded"
    /\ UNCHANGED environ
    /\ UNCHANGED <<scorer_vars, calendar_vars, runner_vars>>

\* What the environment may hold under a flag; <<"unset">> stands for the
\* flag not being set.
FlagValues ==
    {<<"t", "r", "u", "e">>, <<"T", "R", "U", "E">>, <<"T", "r", "u", "e">>,
     <<"f", "a", "l", "s", "e">>, <<"1">>, <<" ", "t", "r", "u", "e">>, <<>>}

Environs ==
    {g \o l \o m :
        g \in {<<>>} \cup {<< <<"ENABLE_GATEWAY", v>> >> : v \in FlagValues},
        l \in {<<>>} \cup {<< <<"ENABLE_LAMBDA_TARGET", v>> >> : v \in FlagValues},
        m \in {<<>>} \cup {<< <<"ENABLE_MCP_TARGET", v>> >> : v \in FlagValues}}

InitAgent ==
    /\ ScorerIdle
    /\ CalendarIdle
    /\ environ \in Environs
    /\ tools = <<>>
    /\ system_prompt = <<>>
    /\ agent_pc = "loading"
    /\ main = [pc |-> "absent"]

NextAgent == load

\* The start-up of the agent under any setting of the three flags.
SpecAgent == InitAgent /\ [][NextAgent]_vars

(***************************************************************************)
(* src/scripts/test-auth.py: the OAuth test runner                         *)
(***************************************************************************)
test_cases ==
    << [prompt      |-> "Are there any market holidays in Australia this week?",
        description |-> "Test MCP server authentication",
        expected    |-> "Holiday data or trading days confirmation"],
       [prompt      |-> "Check if there are any public holidays affecting the Australian stock market in the next 5 days.",
        description |-> "Test OAuth token acquisition and validation",
        expected    |-> "Holiday information with dates"] >>

\* Lines 29-113: a missing terraform directory, a terraform output that
\* cannot be read or an MCP target that is not deployed ends main with 1,
\* before any counter is bound.
main_returns_early ==
    /\ main.pc = "called"
    /\ main' = [pc |-> "returned", exit_code |-> 1]
    /\ UNCHANGED <<scorer_vars, calendar_vars, agent_vars>>

\* Lines 29-140: the configuration is read and the counters are bound.
main_configured(auth_enabled) ==
    /\ main.pc = "called"
    /\ main' = [pc            |-> "testing",
                auth_enabled  |-> auth_enabled,
                i             |-> 1,
                success_count |-> 0,
                failure_count |-> 0,
                answers       |-> <<>>,
                stdout        |-> <<>>,
                slept         |-> 0]
    /\ UNCHANGED <<scorer_vars, calendar_vars, agent_vars>>

\* "401" in error_msg or "Unauthorised" in error_msg or "Unauthorized" in
\* error_msg; a message is the sequence of its words.
is_authentication_error(error_msg) ==
    \E k \in 1..Len(error_msg) : error_msg[k] \in {"401", "Unauthorised", "Unauthorized"}

\* Faulty variant of test_case_runs: the loop is left at the first failure.
test_case_runs_stops_at_failure(answer) ==
    /\ main.pc = "testing"
    /\ LET i      == main.i
           passed == answer.kind = "returned" /\ answer.response # <<>>
           lines  ==
               IF answer.kind = "returned"
               THEN (IF answer.response # <<>>
                     THEN <<<<"Test", i, "PASSED">>>>
                     ELSE <<<<"Test", i, "FAILED - Empty response">>>>)
               ELSE <<<<"Test", i, "FAILED - ", answer.message>>>>
                    \o (IF is_authentication_error(answer.message)
                        THEN <<<<"This is an authentication error!">>>>
                             \o (IF lower(main.auth_enabled) = <<"t", "r", "u", "e">>
                                 THEN <<<<"Possible causes:">>>>
                                 ELSE <<<<"This is unexpected! Authentication should be disabled.">>>>)
                        ELSE <<>>)
       IN  main' = [main EXCEPT
                      !.answers = Append(@, answer),
                      !.stdout = @ \o lines,
                      !.success_count = IF passed THEN @ + 1 ELSE @,
                      !.failure_count = IF passed THEN @ ELSE @ + 1,
                      !.slept = IF i < Len(test_cases) THEN @ + 2 ELSE @,
                      !.i = @ + 1,
                      !.pc = IF passed /\ i < Len(test_cases) THEN "testing" ELSE "summary"]
    /\ UNCHANGED <<scorer_vars, calendar_vars, agent_vars>>

\* Lines 142-200: one pass of the loop over test_cases: invoke_agent returns
\* a response or raises; the case is printed as passed or failed and counted;
\* the script sleeps before the next case.
test_case_runs(answer) ==
    /\ main.pc = "testing"
    /\ LET i      == main.i
           passed == answer.kind = "returned" /\ answer.response # <<>>
           lines  ==
               IF answer.kind = "returned"
               THEN (IF answer.response # <<>>
                     THEN <<<<"Test", i, "PASSED">>>>
                     ELSE <<<<"Test", i, "FAILED - Empty response">>>>)
               ELSE <<<<"Test", i, "FAILED - ", answer.message>>>>
                    \o (IF is_authentication_error(answer.message)
                        THEN <<<<"This is an authentication error!">>>>
                             \o (IF lower(main.auth_enabled) = <<"t", "r", "u", "e">>
                                 THEN <<<<"Possible causes:">>>>
                                 ELSE <<<<"This is unexpected! Authentication should be disabled.">>>>)
                        ELSE <<>>)
       IN  main' = [main EXCEPT
                      !.answers = Append(@, answer),
                      !.stdout = @ \o lines,
                      !.success_count = IF passed THEN @ + 1 ELSE @,
                      !.failure_count = IF passed THEN @ ELSE @ + 1,
                      !.slept = IF i < Len(test_cases) THEN @ + 2 ELSE @,
                      !.i = @ + 1,
                      !.pc = IF i < Len(test_cases) THEN "testing" ELSE "summary"]
    /\ UNCHANGED <<scorer_vars, calendar_vars, agent_vars>>

\* Lines 205-245: the summary is printed and main returns.
main_returns ==
    /\ main.pc = "summary"
    /\ main' = [main EXCEPT !.pc = "returned"] @@
               [exit_code |-> IF main.failure_count = 0 THEN 0 ELSE 1]
    /\ UNCHANGED <<scorer_vars, calendar_vars, agent_vars>>

\* What invoke_agent may come to: a dict with a response text, which may be
\* empty, or an exception.
Answers ==
    {[kind |-> "returned", response |-> text] :
        text \in {<<>>, <<"No public holidays this week.">>, <<"Australia Day, 2026-01-26.">>}}
    \cup
    {[kind |-> "raised", message |-> words] :
        words \in {<<"An error occurred (", "401", ")">>, <<"Unauthorized">>, <<"Read timed out">>}}

AuthEnabledValues == {<<"t", "r", "u", "e">>, <<"f", "a", "l", "s", "e">>}

InitRunner ==
    /\ ScorerIdle
    /\ CalendarIdle
    /\ environ = <<>>
    /\ tools = <<>>
    /\ system_prompt = <<>>
    /\ agent_pc = "absent"
    /\ main = [pc |-> "called"]

NextRunner ==
    \/ main_returns_early
    \/ \E auth_enabled \in AuthEnabledValues : main_configured(auth_enabled)
    \/ \E answer \in Answers : test_case_runs(answer)
    \/ main_returns

\* One run of the test script.
SpecRunner == InitRunner /\ [][NextRunner]_vars

(***************************************************************************)
(* Vocabulary of the properties of check_market_holidays                   *)
(***************************************************************************)
IsError(r) == "error" \in DOMAIN r

IsSuccess(r) == "holidays" \in DOMAIN r

\* Call c has returned a success response.
Succeeded(c) == calls[c].pc = "returned" /\ IsSuccess(calls[c].result)

\* Some fetch of call c has failed.
SomeFetchFailed(c) == \E i \in 1..Len(calls[c].results) : calls[c].results[i].kind # "json"

\* The records the per-year fetches of call c have returned, in order.
RECURSIVE FetchedFrom(_)
FetchedFrom(results) ==
    IF results = <<>> THEN <<>> ELSE Head(results).json \o FetchedFrom(Tail(results))

Fetched(c) == FetchedFrom(calls[c].results)

\* Calendar order of two "YYYY-MM-DD" texts.
DateLE(a, b) ==
    \/ a[1] < b[1]
    \/ a[1] = b[1] /\ a[2] < b[2]
    \/ a[1] = b[1] /\ a[2] = b[2] /\ a[3] <= b[3]

\* Date d lies in the period a success response r reports.
InPeriod(d, r) == DateLE(r.period_start, d) /\ DateLE(d, r.period_end)

SuccessKeys ==
    {"country_code", "period_start", "period_end", "holidays", "trading_days_affected", "advice"}

(***************************************************************************)
(* Properties of check_market_holidays                                     *)
(***************************************************************************)
\* C12: check_market_holidays is all-or-nothing: when the fetch for any
\* required year has failed, the call returns an error response that carries
\* no holidays, period or advice, also when an earlier year's fetch
\* succeeded; a success response is returned only after every required year
\* has been fetched.
C12_AllOrNothing ==
    \A c \in DOMAIN calls :
        calls[c].pc = "returned" =>
            /\ SomeFetchFailed(c) =>
                  /\ IsError(calls[c].result)
                  /\ DOMAIN calls[c].result \cap SuccessKeys = {}
            /\ IsSuccess(calls[c].result) =>
                  /\ Len(calls[c].results) = Len(calls[c].years)
                  /\ ~SomeFetchFailed(c)

\* The window 2025-12-28 + 7 days: the 2025 fetch succeeded, the 2026 fetch
\* failed with a status other than 404, and the call returned an error.
C12_Witness ==
    \E c \in DOMAIN calls :
        /\ calls[c].pc = "returned"
        /\ strftime(calls[c].today) = <<2025, 12, 28>>
        /\ calls[c].days_ahead = 7
        /\ calls[c].requests = <<url(2025, calls[c].country_code), url(2026, calls[c].country_code)>>
        /\ Len(calls[c].results) = 2
        /\ calls[c].results[1].kind = "json"
        /\ calls[c].results[2] = got_status_error(500)
        /\ DOMAIN calls[c].result = {"error"}

\* C13: the two error kinds are not conflated: an error response carries
\* valid_examples = [AU, US, GB, NZ, JP] and the country-not-found message
\* exactly when the failing fetch answered with status 404; any other status
\* error and any transport failure yields an error response with the error
\* member only.
C13_ErrorKindsDistinct ==
    \A c \in DOMAIN calls :
        (calls[c].pc = "returned" /\ IsError(calls[c].result)) =>
            LET failure  == calls[c].results[Len(calls[c].results)]
                notfound == failure.kind = "HTTPStatusError" /\ failure.status_code = 404
            IN  /\ failure.kind # "json"
                /\ notfound <=> "valid_examples" \in DOMAIN calls[c].result
                /\ notfound =>
                      calls[c].result =
                          [error |-> <<"Country code '">> \o calls[c].country_code
                                        \o <<"' not found in Nager.Date">>,
                           valid_examples |-> <<<<"AU">>, <<"US">>, <<"GB">>, <<"NZ">>, <<"JP">>>>]
                /\ ~notfound => DOMAIN calls[c].result = {"error"}

\* An unrecognized country has been answered 404 and the call has returned
\* the examples.
C13_Witness ==
    \E c \in DOMAIN calls :
        /\ calls[c].pc = "returned"
        /\ calls[c].country_code = XX
        /\ calls[c].results = <<got_status_error(404)>>
        /\ "valid_examples" \in DOMAIN calls[c].result

\* C14: every holiday of a success response is one of the records the
\* per-year fetches returned and has a date d with
\* period_start <= d <= period_end; a fetched record dated outside the
\* period does not appear.
C14_HolidaysFetchedAndInWindow ==
    \A c \in DOMAIN calls :
        Succeeded(c) =>
            LET r == calls[c].result
            IN  /\ \A i \in 1..Len(r.holidays) :
                      /\ InPeriod(r.holidays[i].date, r)
                      /\ \E j \in 1..Len(Fetched(c)) :
                            /\ Fetched(c)[j].date = r.holidays[i].date
                            /\ Fetched(c)[j].localName = r.holidays[i].name
                /\ \A j \in 1..Len(Fetched(c)) :
                      ~InPeriod(Fetched(c)[j].date, r) =>
                          \A i \in 1..Len(r.holidays) :
                              r.holidays[i].date # Fetched(c)[j].date

\* A success response holds a holiday while the fetches returned records
\* dated before the period and records dated after it.
C14_Witness ==
    \E c \in DOMAIN calls :
        /\ Succeeded(c)
        /\ calls[c].result.holidays # <<>>
        /\ \E j \in 1..Len(Fetched(c)) :
              ~DateLE(calls[c].result.period_start, Fetched(c)[j].date)
        /\ \E j \in 1..Len(Fetched(c)) :
              ~DateLE(Fetched(c)[j].date, calls[c].result.period_end)

\* C15: the window is inclusive at both ends: a fetched holiday dated on
\* period_start, on period_end or between them is in the success response.
C15_WindowInclusive ==
    \A c \in DOMAIN calls :
        Succeeded(c) =>
            \A j \in 1..Len(Fetched(c)) :
                InPeriod(Fetched(c)[j].date, calls[c].result) =>
                    \E i \in 1..Len(calls[c].result.holidays) :
                        /\ calls[c].result.holidays[i].date = Fetched(c)[j].date
                        /\ calls[c].result.holidays[i].name = Fetched(c)[j].localName

\* A call made in the afternoon of a holiday has returned that holiday, one
\* dated on period_end and one dated between them.
C15_Witness ==
    \E c \in DOMAIN calls :
        /\ Succeeded(c)
        /\ calls[c].today.tod > 0
        /\ LET r == calls[c].result
           IN  /\ \E i \in 1..Len(r.holidays) : r.holidays[i].date = r.period_start
               /\ \E i \in 1..Len(r.holidays) : r.holidays[i].date = r.period_end
               /\ \E i \in 1..Len(r.holidays) :
                     /\ r.holidays[i].date # r.period_start
                     /\ r.holidays[i].date # r.period_end

\* C16: in every success response period_start is the date the clock showed
\* when the call was made, and period_end is period_start plus days_ahead
\* calendar days.
C16_PeriodIsRequestDatePlusDays ==
    /\ [](\A c \in DOMAIN calls :
            Succeeded(c) =>
                LET r == calls[c].result
                IN  /\ r.period_start = strftime(calls[c].today)
                    /\ toordinal(r.period_end[1], r.period_end[2], r.period_end[3])
                          = toordinal(r.period_start[1], r.period_start[2], r.period_start[3])
                            + calls[c].days_ahead)
    /\ [][\A c \in DOMAIN calls :
            (calls[c].pc = "called" /\ calls'[c].pc # "called") => calls'[c].today = clock]_vars

\* A call made on 2025-12-28 for 7 days has reported the period 2025-12-28
\* to 2026-01-04 although the clock has moved on since.
C16_Witness ==
    \E c \in DOMAIN calls :
        /\ Succeeded(c)
        /\ calls[c].days_ahead = 7
        /\ calls[c].result.period_start = <<2025, 12, 28>>
        /\ calls[c].result.period_end = <<2026, 1, 4>>
        /\ strftime(clock) # <<2025, 12, 28>>

\* C17: check_market_holidays fetches the year of period_start and, only
\* when period_end falls in a different year, the year of period_end: at most
\* two fetches per call, whatever days_ahead is.
C17_AtMostTwoFetches ==
    \A c \in DOMAIN calls :
        calls[c].pc # "called" =>
            LET f == calls[c]
                y1 == strftime(f.today)[1]
                y2 == strftime(f.end_date)[1]
            IN  /\ Len(f.requests) \in {1, 2}
                /\ f.requests[1] = url(y1, f.country_code)
                /\ Len(f.requests) = 2 => (y2 # y1 /\ f.requests[2] = url(y2, f.country_code))
                /\ (IsSuccess(f.result) /\ y2 # y1) => Len(f.requests) = 2

\* A call looking 400 days ahead has succeeded with two fetches.
C17_Witness ==
    \E c \in DOMAIN calls :
        /\ Succeeded(c)
        /\ calls[c].days_ahead = 400
        /\ Len(calls[c].requests) = 2

\* The number of fetched records of call c dated in the period of its
\* success response.
ClosuresInPeriod(c) ==
    Cardinality({j \in 1..Len(Fetched(c)) : InPeriod(Fetched(c)[j].date, calls[c].result)})

\* C18: the advice of a success response is "<count> market closure(s) in
\* the next <days_ahead> days. Plan trade executions and client meetings
\* accordingly." exactly when at least one holiday is in the window, and "No
\* scheduled market closures in the next <days_ahead> days." exactly when
\* none is.
C18_AdviceText ==
    \A c \in DOMAIN calls :
        Succeeded(c) =>
            LET n    == ClosuresInPeriod(c)
                days == <<ToString(calls[c].days_ahead)>>
                some == <<ToString(n)>> \o <<" market closure(s) in the next ">> \o days
                           \o <<" days. ">>
                           \o <<"Plan trade executions and client meetings accordingly.">>
                none == <<"No scheduled market closures in the next ">> \o days \o <<" days.">>
            IN  /\ n >= 1 <=> calls[c].result.advice = some
                /\ n = 0 <=> calls[c].result.advice = none

\* A success response with exactly one closure.
C18_Witness ==
    \E c \in DOMAIN calls :
        /\ Succeeded(c)
        /\ ClosuresInPeriod(c) = 1
        /\ Len(calls[c].result.holidays) = 1

\* C19: in every success response trading_days_affected is the number of
\* entries of holidays, and every entry has is_trading_day = false and the
\* date and the localName (as name) of a fetched record.
C19_EntriesAndCount ==
    \A c \in DOMAIN calls :
        Succeeded(c) =>
            LET r == calls[c].result
            IN  /\ r.trading_days_affected = Len(r.holidays)
                /\ \A i \in 1..Len(r.holidays) :
                      /\ DOMAIN r.holidays[i] = {"date", "name", "is_trading_day"}
                      /\ r.holidays[i].is_trading_day = FALSE
                      /\ \E j \in 1..Len(Fetched(c)) :
                            /\ r.holidays[i].date = Fetched(c)[j].date
                            /\ r.holidays[i].name = Fetched(c)[j].localName

\* A success response with three entries from two yearly listings.
C19_Witness ==
    \E c \in DOMAIN calls :
        /\ Succeeded(c)
        /\ Len(calls[c].results) = 2
        /\ calls[c].result.trading_days_affected = 3
        /\ Len(calls[c].result.holidays) = 3

\* C20: two calls of check_market_holidays with the same request date, the
\* same country_code and days_ahead and the same per-year fetch results
\* return identical responses.
C20_SameInputsSameResponse ==
    \A c1 \in DOMAIN calls : \A c2 \in DOMAIN calls :
        (/\ calls[c1].pc = "returned"
         /\ calls[c2].pc = "returned"
         /\ strftime(calls[c1].today) = strftime(calls[c2].today)
         /\ calls[c1].country_code = calls[c2].country_code
         /\ calls[c1].days_ahead = calls[c2].days_ahead
         /\ calls[c1].results = calls[c2].results)
            => calls[c1].result = calls[c2].result

\* Two calls made at different hours of the same day with the same arguments
\* have both reported a holiday.
C20_Witness ==
    \E c1 \in DOMAIN calls : \E c2 \in DOMAIN calls :
        /\ c1 # c2
        /\ Succeeded(c1)
        /\ Succeeded(c2)
        /\ calls[c1].today # calls[c2].today
        /\ strftime(calls[c1].today) = strftime(calls[c2].today)
        /\ calls[c1].country_code = calls[c2].country_code
        /\ calls[c1].days_ahead = calls[c2].days_ahead
        /\ calls[c1].results = calls[c2].results
        /\ calls[c1].result.holidays # <<>>

\* C24: check_market_holidays fetches the required years in ascending order
\* and stops at the first failure: the requests issued are those of an
\* initial stretch of the ascending years, each issued after the one before
\* it was answered, and once a fetch has failed the call has returned and
\* issues no fetch for a later year.
C24_AscendingAndShortCircuit ==
    /\ [](\A c \in DOMAIN calls :
            LET f == calls[c]
            IN  /\ \A i \in 1..(Len(f.years) - 1) : f.years[i] < f.years[i + 1]
                /\ Len(f.requests) <= Len(f.years)
                /\ \A i \in 1..Len(f.requests) : f.requests[i] = url(f.years[i], f.country_code)
                /\ Len(f.requests) \in {Len(f.results), Len(f.results) + 1}
                /\ SomeFetchFailed(c) =>
                      /\ f.pc = "returned"
                      /\ Len(f.requests) = Len(f.results)
                      /\ \A i \in 1..(Len(f.results) - 1) : f.results[i].kind = "json")
    /\ [][\A c \in DOMAIN calls :
            SomeFetchFailed(c) => calls'[c].requests = calls[c].requests]_vars

\* A call whose window spans two years has returned an error after the fetch
\* of the first year failed; the second year was never requested.
C24_Witness ==
    \E c \in DOMAIN calls :
        /\ calls[c].pc = "returned"
        /\ Len(calls[c].years) = 2
        /\ calls[c].requests = <<url(calls[c].years[1], calls[c].country_code)>>
        /\ Len(calls[c].results) = 1
        /\ SomeFetchFailed(c)
        /\ IsError(calls[c].result)

\* The response call c returns when it runs with no other call in flight:
\* what its own arguments, its own request date and the answers to its own
\* fetches determine.
Alone(c) ==
    LET f    == calls[c]
        last == f.results[Len(f.results)]
    IN  CASE last.kind = "HTTPStatusError" -> on_status_error(f.country_code, last.status_code)
          [] last.kind = "RequestError"    -> request_error_response
          [] OTHER ->
                LET until == plus_days(f.today, f.days_ahead)
                IN  success_response(f.country_code, f.days_ahead, f.today, until,
                                     upcoming(Fetched(c), f.today, until))

\* C21: under any interleaving of calls of check_market_holidays in flight
\* and of invocations of handler, each call returns what it would return
\* alone, and no holiday fetched for one call appears in the response of
\* another: every entry of a response comes from the listings of the call's
\* own country.
C21_CallsIsolated ==
    /\ \A c \in DOMAIN calls :
          calls[c].pc = "returned" =>
              /\ calls[c].result = Alone(c)
              /\ IsSuccess(calls[c].result) =>
                    /\ Len(calls[c].result.holidays) <= Len(Fetched(c))
                    /\ \A i \in 1..Len(calls[c].result.holidays) :
                          \E j \in 1..Len(calls[c].years) :
                              \E k \in 1..Len(PublicHolidays(calls[c].years[j], calls[c].country_code)) :
                                  LET h == PublicHolidays(calls[c].years[j], calls[c].country_code)[k]
                                  IN  /\ calls[c].result.holidays[i].date = h.date
                                      /\ calls[c].result.holidays[i].name = h.localName
    /\ pc = "returned" =>
          response = handler_run(event, VOLATILITY_MAP_literal, SUITABILITY_MATRIX_literal).response

\* Call 1 fetched its first year and was still suspended at its second fetch
\* when call 2, for the other country, started; both have reported holidays
\* and the handler has assessed an event meanwhile.
C21_Witness ==
    /\ Len(calls) = 2
    /\ Succeeded(1)
    /\ Succeeded(2)
    /\ calls[1].country_code = AU
    /\ calls[2].country_code = US
    /\ calls[1].today # calls[2].today
    /\ calls[1].result.holidays # <<>>
    /\ calls[2].result.holidays # <<>>
    /\ pc = "returned"
    /\ response.statusCode = 200

\* C25: for every days_ahead >= 0, every holiday the upstream source holds
\* for the country and dated within [period_start, period_end] appears in
\* the success response, also a holiday of a calendar year lying strictly
\* between the year of period_start and the year of period_end.
C25_EveryHolidayInPeriodReported ==
    \A c \in DOMAIN calls :
        (Succeeded(c) /\ calls[c].days_ahead >= 0) =>
            LET r == calls[c].result
            IN  \A y \in r.period_start[1]..r.period_end[1] :
                    \A k \in 1..Len(PublicHolidays(y, calls[c].country_code)) :
                        LET h == PublicHolidays(y, calls[c].country_code)[k]
                        IN  InPeriod(h.date, r) =>
                                \E i \in 1..Len(r.holidays) :
                                    /\ r.holidays[i].date = h.date
                                    /\ r.holidays[i].name = h.localName

\* C26: in every success response, for every integer days_ahead, zero and
\* negative ones included, period_start <= period_end.
C26_PeriodOrdered ==
    \A c \in DOMAIN calls :
        Succeeded(c) => DateLE(calls[c].result.period_start, calls[c].result.period_end)

\* C28: every call of check_market_holidays ends in a success response or
\* in an error response {error}, also when a fetch succeeds at the HTTP level
\* with a malformed payload (a record lacking date or localName, or a date
\* not in YYYY-MM-DD form).
C28_AlwaysAResponse ==
    \A c \in DOMAIN calls :
        calls[c].pc \notin {"called", "awaiting"} =>
            /\ calls[c].pc = "returned"
            /\ IsSuccess(calls[c].result) \/ IsError(calls[c].result)

(***************************************************************************)
(* Further properties of handler                                           *)
(***************************************************************************)
\* C22: validation in handler is ordered and fails fast: an event whose
\* ticker is empty and whose risk_profile is invalid too gets the "ticker is
\* required" error; the risk_profile error is returned for a non-empty
\* ticker only.
C22_TickerValidatedFirst ==
    pc = "returned" =>
        /\ (Blank(Raw("ticker")) /\ ProfileKey \notin ReferenceProfiles) =>
              Body("error") = <<"ticker is required">>
        /\ (response.statusCode = 400 /\ Body("error") # <<"ticker is required">>) =>
              /\ ~Blank(Raw("ticker"))
              /\ Body("error") = ReferenceProfileMessage(ProfileKey)

\* An event with a blank ticker and the risk_profile bogus has been refused.
C22_Witness ==
    /\ pc = "returned"
    /\ dict_has(event, "ticker")
    /\ Blank(Raw("ticker"))
    /\ ProfileKey = bogus
    /\ response.statusCode = 400

\* C23: the fallback of the matrix lookup (proceed_with_caution with
\* "Suitability could not be determined with available data.") is
\* unreachable: no event makes handler return it.
C23_FallbackUnreachable ==
    pc = "returned" =>
        /\ Body("reasoning") # <<"Suitability could not be determined with available data.">>
        /\ response.statusCode = 200 =>
              dict_has(SUITABILITY_MATRIX, <<Body("risk_profile"), Body("volatility_assessed")>>)

\* An unlisted ticker, whose tier is the default, has been assessed for a
\* conservative profile with the reasoning of a matrix cell.
C23_Witness ==
    /\ pc = "returned"
    /\ response.statusCode = 200
    /\ TickerKey = IBM
    /\ ProfileKey = conservative
    /\ Body("suitability") = proceed_with_caution
    /\ Body("reasoning") = dict_get(SUITABILITY_MATRIX, <<conservative, medium>>, <<>>)[2]

\* C27: handler never terminates abnormally: for every event, also one
\* where ticker or risk_profile is absent or holds null or a value that is
\* not a string, it returns an envelope with statusCode 200 or 400.
C27_HandlerAlwaysReturns ==
    pc # "invoked" =>
        /\ pc = "returned"
        /\ response.statusCode \in {200, 400}

(***************************************************************************)
(* Properties of the agent's start-up                                      *)
(***************************************************************************)
\* The spellings of "true" in any letter case.
TrueSpellings ==
    {<<a, b, c, d>> : a \in {"t", "T"}, b \in {"r", "R"}, c \in {"u", "U"}, d \in {"e", "E"}}

\* The flag is set to "true" in some letter case.
FlagOn(flag) == dict_has(environ, flag) /\ dict_get(environ, flag, <<>>) \in TrueSpellings

Registered(tool) == \E i \in 1..Len(tools) : tools[i] = tool

\* The lines of the system prompt that tell the agent to use a capability,
\* each with the tool that provides the capability.
PromptRequires ==
    {<<"- Current stock information using the get_stock_price tool", "get_stock_price">>,
     <<"- Risk assessments using the assess_client_suitability tool", "assess_client_suitability">>,
     <<"- Market calendar information using the check_market_holidays tool", "check_market_holidays">>,
     <<"When helping with suitability queries, always retrieve the current stock price first, then assess suitability. Present both together as a concise brief.", "get_stock_price">>,
     <<"When helping with suitability queries, always retrieve the current stock price first, then assess suitability. Present both together as a concise brief.", "assess_client_suitability">>,
     <<"When discussing trade timing, check for upcoming market holidays. Alert the advisor to any closures that could affect execution.", "check_market_holidays">>,
     <<"When providing stock prices, always cite the ticker symbol and mention that data is real-time from Finnhub.", "get_stock_price">>}

\* At start-up the tool list is the tools whose flags are on, in the order
\* stock price, risk scoring, market calendar.
ToolsMatchFlags ==
    tools = SelectSeq(<<"get_stock_price", "assess_client_suitability", "check_market_holidays">>,
                      LAMBDA t : \/ t = "get_stock_price" /\ FlagOn("ENABLE_GATEWAY")
                                 \/ t = "assess_client_suitability" /\ FlagOn("ENABLE_LAMBDA_TARGET")
                                 \/ t = "check_market_holidays" /\ FlagOn("ENABLE_MCP_TARGET"))

\* C29: at start-up the tool list contains a tool exactly when its flag
\* equals "true" in any letter case, in the order stock price, risk scoring,
\* market calendar, and the system prompt never tells the agent to use a
\* capability whose tool is not registered; in particular it never tells it
\* to retrieve the current stock price when get_stock_price is not registered.
C29_ToolsAndPromptMatchFlags ==
    agent_pc = "loaded" =>
        /\ ToolsMatchFlags
        /\ \A need \in PromptRequires :
              (\E i \in 1..Len(system_prompt) : system_prompt[i] = need[1]) => Registered(need[2])

(***************************************************************************)
(* Properties of the OAuth test runner                                     *)
(***************************************************************************)
\* invoke_agent returned a response that is not empty.
NonEmptyResponse(answer) == answer.kind = "returned" /\ answer.response # <<>>

\* The counters of main are bound.
Counting == "success_count" \in DOMAIN main

\* C30: the test runner attempts every test case, also after a failure: at
\* exit success_count + failure_count is the number of test cases, each case
\* is counted once (passed only on a response that is not empty, failed on
\* an empty response or an exception), and main returns 0 exactly when
\* failure_count is 0.
C30_EveryCaseCountedOnce ==
    /\ Counting =>
          /\ main.success_count =
                Cardinality({k \in 1..Len(main.answers) : NonEmptyResponse(main.answers[k])})
          /\ main.failure_count =
                Cardinality({k \in 1..Len(main.answers) : ~NonEmptyResponse(main.answers[k])})
          /\ main.pc = "testing" => Len(main.answers) = main.i - 1
          /\ main.pc \in {"summary", "returned"} =>
                /\ Len(main.answers) = Len(test_cases)
                /\ main.success_count + main.failure_count = Len(test_cases)
    /\ main.pc = "returned" =>
          (main.exit_code = 0 <=> (Counting /\ main.failure_count = 0))

\* The first case failed with an exception, the second was still attempted
\* and passed; main returned 1.
C30_Witness ==
    /\ main.pc = "returned"
    /\ Counting
    /\ main.answers[1].kind = "raised"
    /\ NonEmptyResponse(main.answers[2])
    /\ main.success_count = 1
    /\ main.failure_count = 1
    /\ main.exit_code = 1

====
